---- MODULE Spec2Model ----
(***************************************************************************)
(* Workflow orchestration of agent-system/agents/orchestrator.py.          *)
(*                                                                         *)
(* Granularity: the code is asyncio, single threaded and cooperative, so   *)
(* one action is the block a coroutine runs between two suspension points  *)
(* (an await of a capability or of the text-generation service).  Texts    *)
(* are abstracted to numbers: user_query is 0, the queries and analysis    *)
(* tasks the text-generation service invents are 1..MaxResearch and        *)
(* 1..MaxAnalysis.  Scores are exact integers in units of 1/6000.          *)
(***************************************************************************)
EXTENDS Integers, Sequences, FiniteSets, TLC

\* ------------------------------------------------------------------ bounds
MaxResearch == 2
MaxAnalysis == 2
\* how many document searches of one run the search backend may fail
MaxSearchErrors == 1

\* ------------------------------------------------------- program constants
max_iterations == 3
quality_threshold_pct == 85

Workflows == {1, 2}
Patterns == {"sequential", "parallel", "loop"}
\* execution_pattern is a free string of the request: one unknown name stands
\* for all of them
PatternNames == Patterns \cup {"tree"}

user_query == 0
GenericAnalysisTask == 0

\* number of sources a successful document search returns, and the accuracy
\* (in percent) a citation validation reports: environment values
SourceCounts == {6}
AccSet == {20, 90}

\* ------------------------------------------------------------- small helpers
Min(a, b) == IF a <= b THEN a ELSE b
Max(a, b) == IF a >= b THEN a ELSE b

RECURSIVE SumSeq(_)
SumSeq(s) == IF s = <<>> THEN 0 ELSE Head(s) + SumSeq(Tail(s))

Reversed(n) == [i \in 1..n |-> n + 1 - i]

\* ------------------------------------------ replies of the text generation
\* A JSON document the service may emit: an object with the task lists, or a
\* parsable document without them.
ResearchLists == {Reversed(n) : n \in 0..MaxResearch}
AnalysisLists == {Reversed(n) : n \in 0..MaxAnalysis}

PlanDocs ==
    {[research_queries |-> r, analysis_tasks |-> a,
      citation_requirements |-> <<1>>, complexity |-> "moderate"] :
        r \in ResearchLists, a \in AnalysisLists}
ShapelessDoc == [refinement_rationale |-> "none"]
Docs == PlanDocs \cup {ShapelessDoc}

\* A reply is a sequence of tokens: the fence ```json, the fence ```, a run of
\* prose, or the text of one JSON document.
FenceJson == [kind |-> "fence_json"]
Fence == [kind |-> "fence"]
Prose == [kind |-> "prose"]
Json(d) == [kind |-> "json", doc |-> d]

RepliesOf(d) ==
    { <<Json(d)>>,
      <<FenceJson, Json(d), Fence>>,
      <<Prose, FenceJson, Json(d), Fence, Prose>>,
      <<Fence, Json(d), Fence>>,
      <<Prose, Fence, Json(d), Fence>>,
      <<Prose, Json(d)>>,
      <<FenceJson, Prose, Fence>> }
Replies == UNION {RepliesOf(d) : d \in Docs} \cup {<<>>, <<Prose>>}

\* "```" is a substring of "```json": splitting on ``` also splits at ```json
ContainsFenceJson(text) == \E i \in 1..Len(text) : text[i].kind = "fence_json"
ContainsFence(text) ==
    \E i \in 1..Len(text) : text[i].kind \in {"fence", "fence_json"}

\* positions of the separators sep (a set of token kinds) in text
SepPositions(text, sep) == {i \in 1..Len(text) : text[i].kind \in sep}
FirstSep(text, sep, from) ==
    LET later == {i \in SepPositions(text, sep) : i >= from}
    IN  IF later = {} THEN Len(text) + 1
        ELSE CHOOSE i \in later : \A j \in later : i <= j

\* text.split(sep)[0] and text.split(sep)[1] (the latter only when sep occurs)
SplitPart0(text, sep) == SubSeq(text, 1, FirstSep(text, sep, 1) - 1)
SplitPart1(text, sep) ==
    LET a == FirstSep(text, sep, 1)
    IN  SubSeq(text, a + 1, FirstSep(text, sep, a + 1) - 1)

StripFences(text) ==
    IF ContainsFenceJson(text)
    THEN SplitPart0(SplitPart1(text, {"fence_json"}), {"fence", "fence_json"})
    ELSE IF ContainsFence(text)
    THEN SplitPart0(SplitPart1(text, {"fence"}), {"fence"})
    ELSE text

\* json.loads(text.strip()) succeeds iff the text is exactly one JSON document
Parses(text) == Len(text) = 1 /\ text[1].kind = "json"
ParseReply(text) == StripFences(text)[1].doc
ReplyParses(text) == Parses(StripFences(text))

\* variant: the fallback asks for no research at all
FallbackWithoutResearch(query) ==
    [research_queries |-> <<>>,
     analysis_tasks |-> <<GenericAnalysisTask>>,
     citation_requirements |-> <<0>>,
     complexity |-> "simple"]

FallbackDecomposition(query) ==
    [research_queries |-> <<query>>,
     analysis_tasks |-> <<GenericAnalysisTask>>,
     citation_requirements |-> <<0>>,
     complexity |-> "simple"]

DecomposeResult(query, reply) ==
    IF ReplyParses(reply) THEN ParseReply(reply) ELSE FallbackDecomposition(query)

RefineResult(previous, reply) ==
    IF ReplyParses(reply) THEN ParseReply(reply) ELSE previous

\* decomposition["research_queries"] and decomposition["analysis_tasks"] exist
HasTaskLists(d) == {"research_queries", "analysis_tasks"} \subseteq DOMAIN d

\* ------------------------------------------------------------------- state
VARIABLES
    pc,                 \* where each execute_workflow call is suspended
    pattern,            \* workflow.execution_pattern
    decomposition,      \* the decomposition the strategy is working from
    tasks,              \* workflow.tasks
    current_iteration,  \* workflow.current_iteration
    research_results,   \* the strategy's local research_results
    analysis_results,   \* the strategy's local analysis_results
    citation_result,    \* the strategy's local citation_result
    results,            \* the strategy's results dictionary
    inflight,           \* positions in workflow.tasks whose capability call is running
    gathered,           \* parallel: the results of gather's children, as they arrive
    synthesized,        \* arguments of the _synthesize_answer calls made
    final_result,       \* workflow.final_result
    error,              \* the exception execute_workflow ended with
    raised,             \* history: positions in workflow.tasks whose call raised
    stubs,              \* environment: what deterministic stubs have answered
    search_errors,      \* environment: document searches that have failed so far
    scoring,            \* the calls of _evaluate_quality made on their own
    sessions,           \* InMemorySessionService.sessions
    storage,            \* the files of storage_path: stem of the name -> content
    clock,              \* datetime.now() as the checkpoint names use it
    deleted,            \* history: ids deleted and not created or written since
    response            \* what the last call on the session service returned

vars == <<pc, pattern, decomposition, tasks, current_iteration, research_results,
          analysis_results, citation_result, results, inflight, gathered,
          synthesized, final_result, error, raised, stubs, search_errors,
          scoring, sessions, storage, clock, deleted, response>>

session_service == <<sessions, storage, clock, deleted, response>>

NoResult == [none |-> TRUE]
NoError == "none"

\* the outcome of a call on the session service: the sessions it returned
\* (none for None and for an empty list; the order of a list is left out)
NoSessionId == "none"
Returned(op, session_id, value, raises) ==
    [op |-> op, session_id |-> session_id, value |-> value, raises |-> raises]

\* AgentTask(...) as constructed by the strategies: status defaults to "pending"
AgentTask(id, type, query, context) ==
    [task_id |-> id, agent_type |-> type, query |-> query, context |-> context,
     status |-> "pending", result |-> NoResult]

NoContext == [keys |-> {}, research_results |-> <<>>, analysis_results |-> <<>>]
ResearchContext(rr) ==
    [keys |-> {"research_results"}, research_results |-> rr, analysis_results |-> <<>>]
AnalysisContext(ar) ==
    [keys |-> {"analysis_results"}, research_results |-> <<>>, analysis_results |-> ar]

\* variant: a task is created already completed
InProgressSkipped(task) == [task EXCEPT !.status = "completed"]

\* task.status = "in_progress"
InProgress(task) == [task EXCEPT !.status = "in_progress"]

\* variant: the status is set and the result is not stored
CompletedWithoutResult(task, result) == [task EXCEPT !.status = "completed"]

\* task.result = result; task.status = "completed"
Completed(task, result) == [task EXCEPT !.result = result, !.status = "completed"]

\* ----------------------------------------------------------- capabilities
\* ResearchAgent.execute: the error dictionary when the document search failed,
\* the full result otherwise
ResearchError(query) == [status |-> "error", query |-> query, sources |-> 0]
ResearchFound(query, n) == [status |-> "completed", query |-> query, sources |-> n]
ResearchOutcomes(query) ==
    {ResearchError(query)} \cup {ResearchFound(query, n) : n \in SourceCounts}

\* environment: when stubs.on, every capability is a deterministic stub, a
\* function of its arguments that is fixed the first time it is asked
NoStubs(on) == [on |-> on, generate |-> {}, research |-> {}, analysis |-> {},
                citation |-> {}]
Raises == [raises |-> TRUE]
Answer(kind, input, outcome) ==
    IF stubs.on
    THEN /\ \A e \in stubs[kind] : e.input = input => e.outcome = outcome
         /\ stubs' = [stubs EXCEPT ![kind] = @ \cup {[input |-> input,
                                                      outcome |-> outcome]}]
    ELSE UNCHANGED stubs

\* environment: the search backend fails (rag_result has "error") for a
\* bounded number of searches
SearchOutcome(query, out) ==
    IF out.status = "error"
       /\ ~(stubs.on /\ [input |-> query, outcome |-> out] \in stubs.research)
    THEN search_errors < MaxSearchErrors /\ search_errors' = search_errors + 1
    ELSE UNCHANGED search_errors

\* AnalysisAgent.execute: the error dictionary when context is empty
AnalysisOutcome(task, context) ==
    IF context = <<>>
    THEN [status |-> "error", task |-> task, num_sources_analyzed |-> 0]
    ELSE [status |-> "completed", task |-> task, num_sources_analyzed |-> Len(context)]
AnalysisMayRaise(context) == context # <<>>

\* CitationAgent.execute
CitationOutcome(accuracy) == [status |-> "completed", accuracy |-> accuracy]

\* variant: the citation term only tells a passing accuracy from a failing one
EvaluateQualityPassFail(rr, ar, cr) ==
    LET total_sources == SumSeq([i \in 1..Len(rr) |-> rr[i].sources])
        citation_accuracy == IF "accuracy" \in DOMAIN cr THEN cr.accuracy ELSE 0
        completed == Cardinality({i \in 1..Len(ar) : ar[i].status = "completed"})
    IN  180 * Min(total_sources, 10)
        + 30 * (IF citation_accuracy >= 50 THEN 100 ELSE 0)
        + (1200 * completed) \div Max(Len(ar), 1)

\* ------------------------------------------------------------ quality score
\* _evaluate_quality, in units of 1/6000 (accuracy is given in percent)
EvaluateQuality(rr, ar, cr) ==
    LET total_sources == SumSeq([i \in 1..Len(rr) |-> rr[i].sources])
        citation_accuracy == IF "accuracy" \in DOMAIN cr THEN cr.accuracy ELSE 0
        completed == Cardinality({i \in 1..Len(ar) : ar[i].status = "completed"})
    IN  180 * Min(total_sources, 10)
        + 30 * citation_accuracy
        + (1200 * completed) \div Max(Len(ar), 1)

QualityThreshold == 60 * quality_threshold_pct

\* variant: the last of the maxima
LastBestIteration(iterations) ==
    LET best == CHOOSE i \in 1..Len(iterations) :
                    /\ \A j \in 1..Len(iterations) :
                           iterations[j].quality_score <= iterations[i].quality_score
                    /\ \A j \in (i + 1)..Len(iterations) :
                           iterations[j].quality_score < iterations[i].quality_score
    IN  iterations[best]

\* max(results["iterations"], key=quality_score): the first of the maxima
BestIteration(iterations) ==
    LET best == CHOOSE i \in 1..Len(iterations) :
                    /\ \A j \in 1..Len(iterations) :
                           iterations[j].quality_score <= iterations[i].quality_score
                    /\ \A j \in 1..(i - 1) :
                           iterations[j].quality_score < iterations[i].quality_score
    IN  iterations[best]

\* variant: the loop numbers its research tasks without the pass
ResearchIdWithoutPass(w, idx) == <<"research", idx>>

\* --------------------------------------------------------------------- ids
ResearchId(w, idx) ==
    IF pattern[w] = "loop" THEN <<"research", current_iteration[w] - 1, idx>>
    ELSE <<"research", idx>>
AnalysisId(w, idx) ==
    IF pattern[w] = "loop" THEN <<"analysis", current_iteration[w] - 1, idx>>
    ELSE <<"analysis", idx>>
CitationId(w) ==
    IF pattern[w] = "loop" THEN <<"citation", current_iteration[w] - 1>>
    ELSE <<"citation_validation">>

\* ----------------------------------------------------------------- helpers
Set(f, w, v) == [f EXCEPT ![w] = v]

\* the exception leaves the strategy and execute_workflow: nothing is caught
Raise(w, exc) ==
    /\ pc' = Set(pc, w, "failed")
    /\ error' = Set(error, w, exc)

EmptyResults(p) ==
    [pattern |-> p, keys |-> {"pattern"}, stages |-> <<>>, iterations |-> <<>>,
     converged |-> FALSE, convergence_iteration |-> 0,
     final_answer |-> NoResult, best_quality_score |-> 0]

Stage(name, res) == [stage |-> name, results |-> res]

\* ------------------------------------------------------------------- Init
InitCalled(called) ==
    /\ pc = [w \in Workflows |-> IF w \in called THEN "decompose" ELSE "idle"]
    /\ pattern \in [Workflows -> PatternNames]
    /\ \A w \in Workflows \ called : pattern[w] = "sequential"
    /\ decomposition = [w \in Workflows |-> NoResult]
    /\ tasks = [w \in Workflows |-> <<>>]
    /\ current_iteration = [w \in Workflows |-> 0]
    /\ research_results = [w \in Workflows |-> <<>>]
    /\ analysis_results = [w \in Workflows |-> <<>>]
    /\ citation_result = [w \in Workflows |-> NoResult]
    /\ results = [w \in Workflows |-> NoResult]
    /\ inflight = [w \in Workflows |-> {}]
    /\ gathered = [w \in Workflows |-> <<>>]
    /\ synthesized = [w \in Workflows |-> <<>>]
    /\ final_result = [w \in Workflows |-> NoResult]
    /\ error = [w \in Workflows |-> NoError]
    /\ raised = [w \in Workflows |-> {}]
    /\ search_errors = 0
    /\ scoring = <<>>
    /\ sessions = <<>>
    /\ storage = <<>>
    /\ clock = 0
    /\ deleted = {}
    /\ response = Returned("__init__", NoSessionId, {}, FALSE)

Init ==
    /\ InitCalled({1})
    /\ stubs = NoStubs(FALSE)

\* ------------------------------------------------------- execute_workflow
\* _decompose_query returns, execute_workflow selects the strategy, and the
\* strategy runs up to its first await
DecomposeReturns(w, reply) ==
    /\ pc[w] = "decompose"
    /\ decomposition' = Set(decomposition, w, DecomposeResult(user_query, reply))
    /\ IF pattern[w] \in Patterns
       THEN /\ results' = Set(results, w, EmptyResults(pattern[w]))
            /\ current_iteration' = Set(current_iteration, w,
                                        IF pattern[w] = "loop" THEN 1 ELSE 0)
            /\ pc' = Set(pc, w, "research")
            /\ UNCHANGED error
       ELSE /\ Raise(w, "ValueError")
            /\ UNCHANGED <<results, current_iteration>>
    /\ Answer("generate", user_query, reply)
    /\ UNCHANGED <<raised, search_errors, scoring, session_service>>
    /\ UNCHANGED <<pattern, tasks, research_results, analysis_results,
                   citation_result, inflight, gathered, synthesized, final_result>>

\* generate_content_async is awaited outside the try block
DecomposeRaises(w) ==
    /\ pc[w] = "decompose"
    /\ Raise(w, "GenerationFailure")
    /\ Answer("generate", user_query, <<Raises>>)
    /\ UNCHANGED <<raised, search_errors, scoring, session_service>>
    /\ UNCHANGED <<pattern, decomposition, tasks, current_iteration,
                   research_results, analysis_results, citation_result, results,
                   inflight, gathered, synthesized, final_result>>

\* ------------------------------------------------------------ research stage
\* variant: the list is walked from its end
EnumeratedBackward(items, idx) == items[Len(items) - idx]

\* for idx, item in enumerate(items): the item of turn idx
Enumerated(items, idx) == items[idx + 1]

\* sequential and loop: one turn of the research for-loop, up to the await
StartResearch(w) ==
    /\ pc[w] = "research"
    /\ pattern[w] \in {"sequential", "loop"}
    /\ IF "research_queries" \notin DOMAIN decomposition[w]
       THEN /\ Raise(w, "KeyError")
            /\ UNCHANGED <<tasks, inflight, results>>
       ELSE LET queries == decomposition[w].research_queries
                idx == Len(research_results[w])
            IN  IF idx < Len(queries)
                THEN /\ tasks' = Set(tasks, w, Append(tasks[w],
                            InProgress(AgentTask(ResearchId(w, idx), "research",
                                                 Enumerated(queries, idx), NoContext))))
                     /\ inflight' = Set(inflight, w, {Len(tasks[w]) + 1})
                     /\ pc' = Set(pc, w, "await_research")
                     /\ UNCHANGED <<error, results>>
                ELSE /\ pc' = Set(pc, w, "analysis")
                     /\ UNCHANGED <<tasks, inflight, error, results>>
    /\ UNCHANGED <<raised, stubs, search_errors, scoring, session_service>>
    /\ UNCHANGED <<pattern, decomposition, current_iteration, research_results,
                   analysis_results, citation_result, gathered, synthesized,
                   final_result>>

\* the position in workflow.tasks of the single call a sequential stage awaits
Awaited(w) == CHOOSE pos \in inflight[w] : TRUE

\* the arguments of the capability call made for the task at pos
Arguments(w, pos) ==
    CASE tasks[w][pos].agent_type = "research" -> tasks[w][pos].query
      [] tasks[w][pos].agent_type = "analysis" ->
            <<tasks[w][pos].query, research_results[w]>>
      [] tasks[w][pos].agent_type = "citation" ->
            <<analysis_results[w], research_results[w]>>

\* variant: the result is stored and the status left as it was
CompleteAtWithoutStatus(w, pos, result) ==
    Set(tasks, w, [tasks[w] EXCEPT ![pos].result = result])

CompleteAt(w, pos, result) ==
    Set(tasks, w, [tasks[w] EXCEPT ![pos] = Completed(tasks[w][pos], result)])

ResearchReturns(w, out) ==
    /\ pc[w] = "await_research"
    /\ out \in ResearchOutcomes(tasks[w][Awaited(w)].query)
    /\ SearchOutcome(tasks[w][Awaited(w)].query, out)
    /\ Answer("research", tasks[w][Awaited(w)].query, out)
    /\ UNCHANGED <<raised, scoring, session_service>>
    /\ tasks' = CompleteAt(w, Awaited(w), out)
    /\ research_results' = Set(research_results, w, Append(research_results[w], out))
    /\ inflight' = Set(inflight, w, {})
    /\ pc' = Set(pc, w, "research")
    /\ UNCHANGED <<pattern, decomposition, current_iteration, analysis_results,
                   citation_result, results, gathered, synthesized, final_result,
                   error>>

\* variant: the call that raised is issued again for the same task
CapabilityRaisesRetries(w, at) ==
    /\ pc[w] = at
    /\ Answer(tasks[w][Awaited(w)].agent_type, Arguments(w, Awaited(w)), Raises)
    /\ raised' = Set(raised, w, raised[w] \cup inflight[w])
    /\ UNCHANGED <<search_errors, scoring, session_service>>
    /\ UNCHANGED <<pc, error, inflight, pattern, decomposition, tasks,
                   current_iteration, research_results, analysis_results,
                   citation_result, results, gathered, synthesized, final_result>>

\* variant: the failure is swallowed and the loop skips to its next pass
CapabilityRaisesSkipsPass(w, at) ==
    /\ pc[w] = at
    /\ Answer(tasks[w][Awaited(w)].agent_type, Arguments(w, Awaited(w)), Raises)
    /\ inflight' = Set(inflight, w, {})
    /\ raised' = Set(raised, w, raised[w] \cup inflight[w])
    /\ IF pattern[w] = "loop" /\ current_iteration[w] < max_iterations
       THEN /\ pc' = Set(pc, w, "research")
            /\ current_iteration' = Set(current_iteration, w, current_iteration[w] + 1)
            /\ research_results' = Set(research_results, w, <<>>)
            /\ analysis_results' = Set(analysis_results, w, <<>>)
            /\ UNCHANGED error
       ELSE /\ Raise(w, "CapabilityFailure")
            /\ UNCHANGED <<current_iteration, research_results, analysis_results>>
    /\ UNCHANGED <<search_errors, scoring, session_service>>
    /\ UNCHANGED <<pattern, decomposition, tasks, citation_result, results,
                   gathered, synthesized, final_result>>

\* the awaited capability raises: no except clause, the task is left as it is
CapabilityRaises(w, at) ==
    /\ pc[w] = at
    /\ Answer(tasks[w][Awaited(w)].agent_type, Arguments(w, Awaited(w)), Raises)
    /\ inflight' = Set(inflight, w, {})
    /\ raised' = Set(raised, w, raised[w] \cup inflight[w])
    /\ Raise(w, "CapabilityFailure")
    /\ UNCHANGED <<search_errors, scoring, session_service>>
    /\ UNCHANGED <<pattern, decomposition, tasks, current_iteration,
                   research_results, analysis_results, citation_result, results,
                   gathered, synthesized, final_result>>

ResearchRaises(w) == CapabilityRaises(w, "await_research")

\* variant: the calls are issued and the strategy does not wait for them
FanOutWithoutJoin(w) ==
    /\ pc[w] = "research"
    /\ pattern[w] = "parallel"
    /\ IF "research_queries" \notin DOMAIN decomposition[w]
       THEN /\ Raise(w, "KeyError")
            /\ UNCHANGED <<tasks, inflight>>
       ELSE LET queries == decomposition[w].research_queries
                agent_tasks == [i \in 1..Len(queries) |->
                    InProgress(AgentTask(ResearchId(w, i - 1), "research",
                                         queries[i], NoContext))]
            IN  /\ tasks' = Set(tasks, w, tasks[w] \o agent_tasks)
                /\ inflight' = Set(inflight, w, {})
                /\ pc' = Set(pc, w, "analysis")
                /\ UNCHANGED error
    /\ UNCHANGED <<raised, stubs, search_errors, scoring, session_service>>
    /\ UNCHANGED <<pattern, decomposition, current_iteration, research_results,
                   analysis_results, citation_result, results, gathered,
                   synthesized, final_result>>

\* parallel: the whole for-loop runs without suspending, then gather is awaited
FanOut(w) ==
    /\ pc[w] = "research"
    /\ pattern[w] = "parallel"
    /\ IF "research_queries" \notin DOMAIN decomposition[w]
       THEN /\ Raise(w, "KeyError")
            /\ UNCHANGED <<tasks, inflight>>
       ELSE LET queries == decomposition[w].research_queries
                agent_tasks == [i \in 1..Len(queries) |->
                    InProgress(AgentTask(ResearchId(w, i - 1), "research",
                                         queries[i], NoContext))]
            IN  /\ tasks' = Set(tasks, w, tasks[w] \o agent_tasks)
                /\ inflight' = Set(inflight, w,
                        {Len(tasks[w]) + i : i \in 1..Len(queries)})
                /\ pc' = Set(pc, w, "join")
                /\ UNCHANGED error
    /\ UNCHANGED <<raised, stubs, search_errors, scoring, session_service>>
    /\ UNCHANGED <<pattern, decomposition, current_iteration, research_results,
                   analysis_results, citation_result, results, gathered,
                   synthesized, final_result>>

\* one child of gather returns; gather keeps its result at the child's position.
\* A child that is still running when gather has already raised runs on, and
\* its result is dropped.
\* variant: each research task is completed as its own call returns
ChildReturnsCompletesTask(w, i, out) ==
    /\ pattern[w] = "parallel"
    /\ pc[w] \in {"join", "failed"}
    /\ i \in inflight[w]
    /\ out \in ResearchOutcomes(tasks[w][i].query)
    /\ SearchOutcome(tasks[w][i].query, out)
    /\ Answer("research", tasks[w][i].query, out)
    /\ UNCHANGED <<raised, scoring, session_service>>
    /\ inflight' = Set(inflight, w, inflight[w] \ {i})
    /\ tasks' = CompleteAt(w, i, out)
    /\ gathered' = Set(gathered, w,
            IF pc[w] = "join" THEN Append(gathered[w], [child |-> i, result |-> out])
            ELSE gathered[w])
    /\ UNCHANGED <<pc, pattern, decomposition, current_iteration,
                   research_results, analysis_results, citation_result, results,
                   synthesized, final_result, error>>

ChildReturns(w, i, out) ==
    /\ pattern[w] = "parallel"
    /\ pc[w] \in {"join", "failed"}
    /\ i \in inflight[w]
    /\ out \in ResearchOutcomes(tasks[w][i].query)
    /\ SearchOutcome(tasks[w][i].query, out)
    /\ Answer("research", tasks[w][i].query, out)
    /\ UNCHANGED <<raised, scoring, session_service>>
    /\ inflight' = Set(inflight, w, inflight[w] \ {i})
    /\ gathered' = Set(gathered, w,
            IF pc[w] = "join" THEN Append(gathered[w], [child |-> i, result |-> out])
            ELSE gathered[w])
    /\ UNCHANGED <<pc, pattern, decomposition, tasks, current_iteration,
                   research_results, analysis_results, citation_result, results,
                   synthesized, final_result, error>>

\* variant: gather(return_exceptions=True), the failure is one more result
ChildRaisesCollected(w, i) ==
    /\ pattern[w] = "parallel"
    /\ pc[w] \in {"join", "failed"}
    /\ i \in inflight[w]
    /\ inflight' = Set(inflight, w, inflight[w] \ {i})
    /\ Answer("research", tasks[w][i].query, Raises)
    /\ raised' = Set(raised, w, raised[w] \cup {i})
    /\ gathered' = Set(gathered, w,
            Append(gathered[w], [child |-> i, result |-> ResearchError(tasks[w][i].query)]))
    /\ UNCHANGED <<search_errors, scoring, session_service>>
    /\ UNCHANGED <<pc, error, pattern, decomposition, tasks, current_iteration,
                   research_results, analysis_results, citation_result, results,
                   synthesized, final_result>>

\* one child raises: gather (return_exceptions=False) propagates the first
\* exception to its awaiter at once and cancels nothing
ChildRaises(w, i) ==
    /\ pattern[w] = "parallel"
    /\ pc[w] \in {"join", "failed"}
    /\ i \in inflight[w]
    /\ inflight' = Set(inflight, w, inflight[w] \ {i})
    /\ Answer("research", tasks[w][i].query, Raises)
    /\ raised' = Set(raised, w, raised[w] \cup {i})
    /\ IF pc[w] = "join" THEN Raise(w, "CapabilityFailure") ELSE UNCHANGED <<pc, error>>
    /\ UNCHANGED <<search_errors, scoring, session_service>>
    /\ UNCHANGED <<pattern, decomposition, tasks, current_iteration,
                   research_results, analysis_results, citation_result, results,
                   gathered, synthesized, final_result>>

\* the list gather returns: one result per awaitable, in the order the
\* awaitables were given (g lists the children's results as they arrived)
ResultOfChild(g, child) == g[CHOOSE a \in 1..Len(g) : g[a].child = child].result
\* variant: the results in the order the children finished
GatherAsCompleted(g, base, n) == [k \in 1..n |-> g[k].result]
GatherResults(g, base, n) == [k \in 1..n |-> ResultOfChild(g, base + k)]

\* for task, result in zip(agent_tasks, research_results)
ZipComplete(ts, base, rr) ==
    [pos \in 1..Len(ts) |->
        IF pos > base /\ pos <= base + Len(rr)
        THEN Completed(ts[pos], rr[pos - base]) ELSE ts[pos]]

\* variant: the joined list is read back to front
JoinReversed(w) ==
    /\ pc[w] = "join"
    /\ inflight[w] = {}
    /\ LET n == Len(decomposition[w].research_queries)
           base == Len(tasks[w]) - n
           gr == GatherResults(gathered[w], base, n)
           rr == [k \in 1..n |-> gr[n + 1 - k]]
       IN  /\ research_results' = Set(research_results, w, rr)
           /\ tasks' = Set(tasks, w, ZipComplete(tasks[w], base, rr))
    /\ pc' = Set(pc, w, "analysis")
    /\ UNCHANGED <<raised, stubs, search_errors, scoring, session_service>>
    /\ UNCHANGED <<pattern, decomposition, current_iteration, analysis_results,
                   citation_result, results, inflight, gathered, synthesized,
                   final_result, error>>

\* every child returned: gather returns and the task statuses are updated
Join(w) ==
    /\ pc[w] = "join"
    /\ inflight[w] = {}
    /\ LET n == Len(decomposition[w].research_queries)
           base == Len(tasks[w]) - n
           rr == GatherResults(gathered[w], base, n)
       IN  /\ research_results' = Set(research_results, w, rr)
           /\ tasks' = Set(tasks, w, ZipComplete(tasks[w], base, rr))
    /\ pc' = Set(pc, w, "analysis")
    /\ UNCHANGED <<raised, stubs, search_errors, scoring, session_service>>
    /\ UNCHANGED <<pattern, decomposition, current_iteration, analysis_results,
                   citation_result, results, inflight, gathered, synthesized,
                   final_result, error>>

\* ------------------------------------------------------------ analysis stage
StartAnalysis(w) ==
    /\ pc[w] = "analysis"
    /\ IF "analysis_tasks" \notin DOMAIN decomposition[w]
       THEN /\ Raise(w, "KeyError")
            /\ UNCHANGED <<tasks, inflight>>
       ELSE LET analysis_tasks == decomposition[w].analysis_tasks
                idx == Len(analysis_results[w])
            IN  IF idx < Len(analysis_tasks)
                THEN /\ tasks' = Set(tasks, w, Append(tasks[w],
                            InProgress(AgentTask(AnalysisId(w, idx), "analysis",
                                                 Enumerated(analysis_tasks, idx),
                                                 ResearchContext(research_results[w])))))
                     /\ inflight' = Set(inflight, w, {Len(tasks[w]) + 1})
                     /\ pc' = Set(pc, w, "await_analysis")
                     /\ UNCHANGED error
                ELSE /\ pc' = Set(pc, w, "citation")
                     /\ UNCHANGED <<tasks, inflight, error>>
    /\ UNCHANGED <<raised, stubs, search_errors, scoring, session_service>>
    /\ UNCHANGED <<pattern, decomposition, current_iteration, research_results,
                   analysis_results, citation_result, results, gathered,
                   synthesized, final_result>>

AnalysisReturns(w) ==
    /\ pc[w] = "await_analysis"
    /\ LET out == AnalysisOutcome(tasks[w][Awaited(w)].query, research_results[w])
       IN  /\ tasks' = CompleteAt(w, Awaited(w), out)
           /\ analysis_results' = Set(analysis_results, w,
                                      Append(analysis_results[w], out))
    /\ inflight' = Set(inflight, w, {})
    /\ pc' = Set(pc, w, "analysis")
    /\ Answer("analysis", Arguments(w, Awaited(w)),
              AnalysisOutcome(tasks[w][Awaited(w)].query, research_results[w]))
    /\ UNCHANGED <<raised, search_errors, scoring, session_service>>
    /\ UNCHANGED <<pattern, decomposition, current_iteration, research_results,
                   citation_result, results, gathered, synthesized, final_result,
                   error>>

\* variant: the failure of an analysis call is kept as one more result
AnalysisRaisesRecorded(w) ==
    /\ pc[w] = "await_analysis"
    /\ AnalysisMayRaise(research_results[w])
    /\ analysis_results' = Set(analysis_results, w,
            Append(analysis_results[w],
                   AnalysisOutcome(tasks[w][Awaited(w)].query, <<>>)))
    /\ raised' = Set(raised, w, raised[w] \cup inflight[w])
    /\ inflight' = Set(inflight, w, {})
    /\ pc' = Set(pc, w, "analysis")
    /\ UNCHANGED <<stubs, search_errors, scoring, session_service>>
    /\ UNCHANGED <<pattern, decomposition, tasks, current_iteration,
                   research_results, citation_result, results, gathered,
                   synthesized, final_result, error>>

AnalysisRaises(w) ==
    /\ AnalysisMayRaise(research_results[w])
    /\ CapabilityRaises(w, "await_analysis")

\* variant: the task list is one list shared by all WorkflowExecution objects
StartCitationOnSharedList(w) ==
    /\ pc[w] = "citation"
    /\ tasks' = [v \in Workflows |-> Append(tasks[v],
            InProgress(AgentTask(CitationId(w), "citation", 0,
                                 AnalysisContext(analysis_results[w]))))]
    /\ inflight' = Set(inflight, w, {Len(tasks[w]) + 1})
    /\ pc' = Set(pc, w, "await_citation")
    /\ UNCHANGED <<raised, stubs, search_errors, scoring, session_service>>
    /\ UNCHANGED <<pattern, decomposition, current_iteration, research_results,
                   analysis_results, citation_result, results, gathered,
                   synthesized, final_result, error>>

\* ------------------------------------------------------------ citation stage
StartCitation(w) ==
    /\ pc[w] = "citation"
    /\ tasks' = Set(tasks, w, Append(tasks[w],
            InProgress(AgentTask(CitationId(w), "citation", 0,
                                 AnalysisContext(analysis_results[w])))))
    /\ inflight' = Set(inflight, w, {Len(tasks[w]) + 1})
    /\ pc' = Set(pc, w, "await_citation")
    /\ UNCHANGED <<raised, stubs, search_errors, scoring, session_service>>
    /\ UNCHANGED <<pattern, decomposition, current_iteration, research_results,
                   analysis_results, citation_result, results, gathered,
                   synthesized, final_result, error>>

\* no analysis result, no claim, no validation: _calculate_metrics reports 0.0
CitationAccuracies(ar) == IF ar = <<>> THEN {0} ELSE AccSet

ResearchStageName(p) == IF p = "parallel" THEN "parallel_research" ELSE "research"

Stages(w, cr) ==
    << Stage(ResearchStageName(pattern[w]), research_results[w]),
       Stage("analysis", analysis_results[w]),
       Stage("citation", cr) >>

\* ---------------------------------------------------------------- the loop
IterationResult(w, cr, score) ==
    [iteration |-> current_iteration[w],
     stages |-> Stages(w, cr),
     quality_score |-> score]

\* quality_score >= workflow.quality_threshold
ThresholdMet(score) == score >= QualityThreshold

\* variant: the pass before the last one is taken for the last
NotFinalIterationShort(it) == it - 1 < max_iterations - 2

\* iteration < workflow.max_iterations - 1, iteration being current_iteration - 1
NotFinalIteration(it) == it - 1 < max_iterations - 1

\* variant: the pass is recorded and the convergence entries never written
RecordIterationOnly(res, w, cr, score) ==
    [res EXCEPT !.iterations = Append(@, IterationResult(w, cr, score)),
                !.keys = @ \cup {"iterations"}]

\* results["iterations"].append(iteration_result), and the convergence entries
RecordIteration(res, w, cr, score) ==
    LET recorded == [res EXCEPT !.iterations = Append(@, IterationResult(w, cr, score)),
                                !.keys = @ \cup {"iterations"}]
    IN  IF ThresholdMet(score)
        THEN [recorded EXCEPT !.converged = TRUE,
                              !.convergence_iteration = current_iteration[w],
                              !.keys = @ \cup {"converged", "convergence_iteration"}]
        ELSE recorded

\* variant: the loop goes on whatever the score
LoopRefinesAlways(w, score) ==
    /\ pattern[w] = "loop"
    /\ NotFinalIteration(current_iteration[w])

\* variant: the last pass is refined too
LoopRefinesUnlessConverged(w, score) ==
    /\ pattern[w] = "loop"
    /\ ~ThresholdMet(score)

\* the loop goes on to _refine_decomposition
LoopRefines(w, score) ==
    /\ pattern[w] = "loop"
    /\ ~ThresholdMet(score)
    /\ NotFinalIteration(current_iteration[w])

\* ---------------------------------------------------------------- synthesis
\* variant: the loop synthesizes from its first pass
SynthesisFromFirstPass(w, res, cr) ==
    IF pattern[w] = "loop"
    THEN LET first == res.iterations[1]
         IN  [iteration |-> first.iteration,
              research |-> first.stages[1].results,
              analysis |-> first.stages[2].results,
              citation |-> first.stages[3].results,
              quality_score |-> first.quality_score]
    ELSE [iteration |-> 0,
          research |-> research_results[w],
          analysis |-> analysis_results[w],
          citation |-> cr,
          quality_score |-> 0]

\* the arguments _synthesize_answer is called with
SynthesisArguments(w, res, cr) ==
    IF pattern[w] = "loop"
    THEN LET best_iteration == BestIteration(res.iterations)
         IN  [iteration |-> best_iteration.iteration,
              research |-> best_iteration.stages[1].results,
              analysis |-> best_iteration.stages[2].results,
              citation |-> best_iteration.stages[3].results,
              quality_score |-> best_iteration.quality_score]
    ELSE [iteration |-> 0,
          research |-> research_results[w],
          analysis |-> analysis_results[w],
          citation |-> cr,
          quality_score |-> 0]

\* the citation call returns; the strategy runs on to its next await: the
\* refinement of the decomposition, or the synthesis of the answer
CitationReturns(w, accuracy) ==
    /\ pc[w] = "await_citation"
    /\ accuracy \in CitationAccuracies(analysis_results[w])
    /\ LET out == CitationOutcome(accuracy)
           score == EvaluateQuality(research_results[w], analysis_results[w], out)
           res == IF pattern[w] = "loop"
                  THEN RecordIteration(results[w], w, out, score)
                  ELSE [results[w] EXCEPT !.stages = Stages(w, out),
                                          !.keys = @ \cup {"stages"}]
       IN  /\ tasks' = CompleteAt(w, Awaited(w), out)
           /\ citation_result' = Set(citation_result, w, out)
           /\ results' = Set(results, w, res)
           /\ IF LoopRefines(w, score)
              THEN /\ pc' = Set(pc, w, "await_refine")
                   /\ UNCHANGED synthesized
              ELSE /\ pc' = Set(pc, w, "await_synthesize")
                   /\ synthesized' = Set(synthesized, w,
                          Append(synthesized[w], SynthesisArguments(w, res, out)))
    /\ inflight' = Set(inflight, w, {})
    /\ Answer("citation", Arguments(w, Awaited(w)), CitationOutcome(accuracy))
    /\ UNCHANGED <<raised, search_errors, scoring, session_service>>
    /\ UNCHANGED <<pattern, decomposition, current_iteration, research_results,
                   analysis_results, gathered, final_result, error>>

\* variant: a failed citation call is swallowed and the answer synthesized
\* from the research and analysis results alone
CitationRaisesSynthesizes(w) ==
    /\ pc[w] = "await_citation"
    /\ Answer("citation", Arguments(w, Awaited(w)), Raises)
    /\ inflight' = Set(inflight, w, {})
    /\ raised' = Set(raised, w, raised[w] \cup inflight[w])
    /\ pc' = Set(pc, w, "await_synthesize")
    /\ synthesized' = Set(synthesized, w, Append(synthesized[w],
            [iteration |-> 0, research |-> research_results[w],
             analysis |-> analysis_results[w], citation |-> NoResult,
             quality_score |-> 0]))
    /\ UNCHANGED <<search_errors, scoring, session_service>>
    /\ UNCHANGED <<pattern, decomposition, tasks, current_iteration,
                   research_results, analysis_results, citation_result, results,
                   gathered, final_result, error>>

CitationRaises(w) == CapabilityRaises(w, "await_citation")

\* what the text-generation service answers to a refinement request: it keeps
\* the analysis tasks it is not asked to change
RefineMayReply(previous, reply) ==
    ReplyParses(reply) /\ HasTaskLists(ParseReply(reply))
        => ParseReply(reply).analysis_tasks = previous.analysis_tasks

\* variant: the refinement is asked for again after every usable reply
RefineReturnsAsksAgain(w, reply) ==
    /\ pc[w] = "await_refine"
    /\ ReplyParses(reply) /\ HasTaskLists(ParseReply(reply))
    /\ RefineMayReply(decomposition[w], reply)
    /\ decomposition' = Set(decomposition, w, RefineResult(decomposition[w], reply))
    /\ UNCHANGED <<pc, synthesized, current_iteration, research_results,
                   analysis_results>>
    /\ UNCHANGED <<raised, stubs, search_errors, scoring, session_service>>
    /\ UNCHANGED <<pattern, tasks, citation_result, results, inflight, gathered,
                   final_result, error>>

\* _refine_decomposition returns and the next pass of the for-loop begins
RefineReturns(w, reply) ==
    /\ pc[w] = "await_refine"
    /\ RefineMayReply(decomposition[w], reply)
    /\ decomposition' = Set(decomposition, w, RefineResult(decomposition[w], reply))
    /\ IF current_iteration[w] < max_iterations
       THEN /\ current_iteration' = Set(current_iteration, w, current_iteration[w] + 1)
            /\ research_results' = Set(research_results, w, <<>>)
            /\ analysis_results' = Set(analysis_results, w, <<>>)
            /\ pc' = Set(pc, w, "research")
            /\ UNCHANGED synthesized
       ELSE /\ pc' = Set(pc, w, "await_synthesize")
            /\ synthesized' = Set(synthesized, w,
                   Append(synthesized[w],
                          SynthesisArguments(w, results[w], citation_result[w])))
            /\ UNCHANGED <<current_iteration, research_results, analysis_results>>
    /\ UNCHANGED <<raised, stubs, search_errors, scoring, session_service>>
    /\ UNCHANGED <<pattern, tasks, citation_result, results, inflight, gathered,
                   final_result, error>>

RefineRaises(w) ==
    /\ pc[w] = "await_refine"
    /\ Raise(w, "GenerationFailure")
    /\ UNCHANGED <<raised, stubs, search_errors, scoring, session_service>>
    /\ UNCHANGED <<pattern, decomposition, tasks, current_iteration,
                   research_results, analysis_results, citation_result, results,
                   inflight, gathered, synthesized, final_result>>

\* the answer is the text generated from the prompt: it is identified by what
\* the prompt was built from.  The strategy returns and execute_workflow
\* stores the result.
SynthesizeReturns(w) ==
    /\ pc[w] = "await_synthesize"
    /\ LET args == synthesized[w][Len(synthesized[w])]
           answered == [results[w] EXCEPT
                          !.final_answer = [built_from |-> args],
                          !.keys = @ \cup {"final_answer"}]
           returned == IF pattern[w] = "loop"
                       THEN [answered EXCEPT
                               !.best_quality_score = args.quality_score,
                               !.keys = @ \cup {"best_quality_score"}]
                       ELSE answered
       IN  /\ results' = Set(results, w, returned)
           /\ final_result' = Set(final_result, w, returned)
    /\ pc' = Set(pc, w, "done")
    /\ UNCHANGED <<raised, stubs, search_errors, scoring, session_service>>
    /\ UNCHANGED <<pattern, decomposition, tasks, current_iteration,
                   research_results, analysis_results, citation_result, inflight,
                   gathered, synthesized, error>>

\* variant: the partial results are stored before the failure is raised
SynthesizeRaisesStoresPartial(w) ==
    /\ pc[w] = "await_synthesize"
    /\ Raise(w, "GenerationFailure")
    /\ final_result' = Set(final_result, w, results[w])
    /\ UNCHANGED <<raised, stubs, search_errors, scoring, session_service>>
    /\ UNCHANGED <<pattern, decomposition, tasks, current_iteration,
                   research_results, analysis_results, citation_result, results,
                   inflight, gathered, synthesized>>

SynthesizeRaises(w) ==
    /\ pc[w] = "await_synthesize"
    /\ Raise(w, "GenerationFailure")
    /\ UNCHANGED <<raised, stubs, search_errors, scoring, session_service>>
    /\ UNCHANGED <<pattern, decomposition, tasks, current_iteration,
                   research_results, analysis_results, citation_result, results,
                   inflight, gathered, synthesized, final_result>>

\* -------------------------------------------------------------------- Next
AnyResearchOutcome == UNION {ResearchOutcomes(q) : q \in 0..MaxResearch}

Next ==
    \E w \in Workflows :
        \/ \E reply \in Replies : DecomposeReturns(w, reply)
        \/ DecomposeRaises(w)
        \/ StartResearch(w)
        \/ \E out \in AnyResearchOutcome : ResearchReturns(w, out)
        \/ ResearchRaises(w)
        \/ FanOut(w)
        \/ \E i \in inflight[w], out \in AnyResearchOutcome : ChildReturns(w, i, out)
        \/ \E i \in inflight[w] : ChildRaises(w, i)
        \/ Join(w)
        \/ StartAnalysis(w)
        \/ AnalysisReturns(w)
        \/ AnalysisRaises(w)
        \/ StartCitation(w)
        \/ \E accuracy \in AccSet \cup {0} : CitationReturns(w, accuracy)
        \/ CitationRaises(w)
        \/ \E reply \in Replies : RefineReturns(w, reply)
        \/ RefineRaises(w)
        \/ SynthesizeReturns(w)
        \/ SynthesizeRaises(w)

Spec == Init /\ [][Next]_vars

\* Two calls on the same orchestrator, for the same query, one sequential and
\* one parallel, against deterministic capability stubs.
\* Every capability call and every text-generation call eventually settles,
\* and the coroutine of execute_workflow runs on whenever its await has
\* settled: some step of the calls under way is eventually taken.
SpecLive == Init /\ [][Next]_vars /\ WF_vars(Next)

InitPair ==
    /\ InitCalled({1, 2})
    /\ pattern = [w \in Workflows |-> IF w = 1 THEN "sequential" ELSE "parallel"]
    /\ stubs = NoStubs(TRUE)

NextPair ==
    \E w \in Workflows :
        \/ \E reply \in Replies : DecomposeReturns(w, reply)
        \/ DecomposeRaises(w)
        \/ StartResearch(w)
        \/ \E out \in AnyResearchOutcome : ResearchReturns(w, out)
        \/ ResearchRaises(w)
        \/ FanOut(w)
        \/ \E i \in inflight[w], out \in AnyResearchOutcome : ChildReturns(w, i, out)
        \/ \E i \in inflight[w] : ChildRaises(w, i)
        \/ Join(w)
        \/ StartAnalysis(w)
        \/ AnalysisReturns(w)
        \/ AnalysisRaises(w)
        \/ StartCitation(w)
        \/ \E accuracy \in AccSet \cup {0} : CitationReturns(w, accuracy)
        \/ CitationRaises(w)
        \/ SynthesizeReturns(w)
        \/ SynthesizeRaises(w)

SpecPair == InitPair /\ [][NextPair]_vars

\* _evaluate_quality on its own: it reads nothing but its three arguments.
\* Accuracies are in percent; the function accepts any number, and a citation
\* result without the entry.
AccInputs == {0 - 50, 0, 20, 90, 100, 150}
ScoredResearch ==
    {[i \in 1..n |-> IF i <= e THEN ResearchError(i) ELSE ResearchFound(i, s)] :
        n \in 0..MaxResearch, e \in 0..1, s \in SourceCounts}
ScoredAnalysis ==
    {[i \in 1..n |-> AnalysisOutcome(i, IF i <= e THEN <<>> ELSE <<1>>)] :
        n \in 0..MaxAnalysis, e \in 0..MaxAnalysis}
ScoredCitation ==
    {[status |-> "completed"]} \cup {CitationOutcome(a) : a \in AccInputs}

Evaluation(rr, ar, cr) ==
    [research |-> rr, analysis |-> ar, citation |-> cr,
     score |-> EvaluateQuality(rr, ar, cr)]

orchestration == <<pc, pattern, decomposition, tasks, current_iteration,
                   research_results, analysis_results, citation_result, results,
                   inflight, gathered, synthesized, final_result, error, raised,
                   stubs, search_errors>>

InitScore ==
    /\ InitCalled({})
    /\ stubs = NoStubs(FALSE)

EvaluateQualityCalled(rr, ar, cr) ==
    /\ scoring = <<>>
    /\ scoring' = <<Evaluation(rr, ar, cr)>>
    /\ UNCHANGED <<orchestration, session_service>>

\* a second call with the same research and analysis results and another
\* citation result
EvaluateQualityAgain(cr) ==
    /\ Len(scoring) = 1
    /\ cr # scoring[1].citation
    /\ scoring' = Append(scoring, Evaluation(scoring[1].research,
                                             scoring[1].analysis, cr))
    /\ UNCHANGED <<orchestration, session_service>>

NextScore ==
    \/ \E rr \in ScoredResearch, ar \in ScoredAnalysis, cr \in ScoredCitation :
           EvaluateQualityCalled(rr, ar, cr)
    \/ \E cr \in ScoredCitation : EvaluateQualityAgain(cr)

SpecScore == InitScore /\ [][NextScore]_vars

\* ------------------------------------------------- the session service
SessionIds == {"a", "b"}
MaxCheckpoints == 2

\* a key of self.sessions, and the stem of a file of storage_path: a session
\* id names the file f"{session_id}.json", a checkpoint the file
\* f"{session_id}_checkpoint_{timestamp}.json"
SessionKey(session_id) == <<session_id, 0>>
CheckpointId(session_id, timestamp) == <<session_id, timestamp>>
CheckpointIds == {CheckpointId(id, t) : id \in SessionIds, t \in 1..MaxCheckpoints}
Keys == {SessionKey(id) : id \in SessionIds} \cup CheckpointIds

\* Session(session_id=...), its to_dict() as written to a file, and
\* Session.from_dict(data), which takes the session id from the file's content
Session(session_id) == [session_id |-> session_id]
ToDict(session) == [json |-> [session_id |-> session.session_id]]
FromDict(data) == Session(data.json.session_id)

Put(dict, key, value) ==
    [k \in DOMAIN dict \cup {key} |-> IF k = key THEN value ELSE dict[k]]
Remove(dict, key) == [k \in DOMAIN dict \ {key} |-> dict[k]]
Values(dict) == {dict[k] : k \in DOMAIN dict}

\* load_session: the session read from the file of that stem, if there is one
LoadSession(stem) ==
    IF stem \in DOMAIN storage THEN {FromDict(storage[stem])} ELSE {}

\* get_session: the session in memory, else the one loaded from disk, which
\* is then kept in memory under the key asked for
Found(key) == IF key \in DOMAIN sessions THEN {sessions[key]} ELSE LoadSession(key)
AfterGet(key) ==
    IF key \notin DOMAIN sessions /\ LoadSession(key) # {}
    THEN Put(sessions, key, CHOOSE loaded \in LoadSession(key) : TRUE)
    ELSE sessions

create_session(session_id) ==
    /\ sessions' = Put(sessions, SessionKey(session_id), Session(session_id))
    /\ deleted' = deleted \ {session_id}
    /\ response' = Returned("create_session", session_id, {Session(session_id)}, FALSE)
    /\ UNCHANGED <<storage, clock>>
    /\ UNCHANGED <<orchestration, scoring>>

get_session(session_id) ==
    /\ sessions' = AfterGet(SessionKey(session_id))
    /\ response' = Returned("get_session", session_id, Found(SessionKey(session_id)), FALSE)
    /\ UNCHANGED <<storage, clock, deleted>>
    /\ UNCHANGED <<orchestration, scoring>>

\* save_session(session) for a session object the service holds: the file
\* is named after the object's session_id
save_session(key) ==
    /\ key \in DOMAIN sessions
    /\ LET session == sessions[key]
       IN  /\ storage' = Put(storage, SessionKey(session.session_id), ToDict(session))
           /\ deleted' = deleted \ {session.session_id}
           /\ response' = Returned("save_session", session.session_id, {}, FALSE)
    /\ UNCHANGED <<sessions, clock>>
    /\ UNCHANGED <<orchestration, scoring>>

delete_session(session_id) ==
    /\ sessions' = Remove(sessions, SessionKey(session_id))
    /\ storage' = Remove(storage, SessionKey(session_id))
    /\ deleted' = deleted \cup {session_id}
    /\ response' = Returned("delete_session", session_id, {}, FALSE)
    /\ UNCHANGED clock
    /\ UNCHANGED <<orchestration, scoring>>

\* every file of storage_path whose stem is not a key of self.sessions is
\* loaded and kept under its stem; the values of self.sessions are returned
list_sessions ==
    /\ sessions' = [k \in DOMAIN sessions \cup DOMAIN storage |->
                       IF k \in DOMAIN sessions THEN sessions[k]
                       ELSE FromDict(storage[k])]
    /\ response' = Returned("list_sessions", NoSessionId, Values(sessions'), FALSE)
    /\ UNCHANGED <<storage, clock, deleted>>
    /\ UNCHANGED <<orchestration, scoring>>

create_checkpoint(session_id) ==
    /\ clock < MaxCheckpoints
    /\ sessions' = AfterGet(SessionKey(session_id))
    /\ IF Found(SessionKey(session_id)) = {}
       THEN /\ response' = Returned("create_checkpoint", session_id, {}, TRUE)
            /\ UNCHANGED <<storage, clock>>
       ELSE LET session == CHOOSE found \in Found(SessionKey(session_id)) : TRUE
            IN  /\ clock' = clock + 1
                /\ storage' = Put(storage, CheckpointId(session_id, clock + 1),
                                  ToDict(session))
                /\ response' = Returned("create_checkpoint", session_id, {}, FALSE)
    /\ UNCHANGED deleted
    /\ UNCHANGED <<orchestration, scoring>>

restore_checkpoint(checkpoint_id) ==
    /\ IF checkpoint_id \notin DOMAIN storage
       THEN /\ response' = Returned("restore_checkpoint", NoSessionId, {}, TRUE)
            /\ UNCHANGED <<sessions, deleted>>
       ELSE LET session == FromDict(storage[checkpoint_id])
            IN  /\ sessions' = Put(sessions, SessionKey(session.session_id), session)
                /\ deleted' = deleted \ {session.session_id}
                /\ response' = Returned("restore_checkpoint", session.session_id,
                                        {session}, FALSE)
    /\ UNCHANGED <<storage, clock>>
    /\ UNCHANGED <<orchestration, scoring>>

InitSession ==
    /\ InitCalled({})
    /\ stubs = NoStubs(FALSE)

NextSession ==
    \/ \E session_id \in SessionIds : create_session(session_id)
    \/ \E session_id \in SessionIds : get_session(session_id)
    \/ \E key \in Keys : save_session(key)
    \/ \E session_id \in SessionIds : delete_session(session_id)
    \/ list_sessions
    \/ \E session_id \in SessionIds : create_checkpoint(session_id)
    \/ \E checkpoint_id \in CheckpointIds : restore_checkpoint(checkpoint_id)

SpecSession == InitSession /\ [][NextSession]_vars

\* ================================================================== claims
Positions(w) == 1..Len(tasks[w])
TypeAt(w, pos) == tasks[w][pos].agent_type
StatusAt(w, pos) == tasks[w][pos].status
\* the pass a task was created in (0 outside the loop)
PassAt(w, pos) == IF pattern[w] = "loop" THEN tasks[w][pos].task_id[2] + 1 ELSE 0
CurrentPass(w) == current_iteration[w]
OfPass(w, type, pass) ==
    {pos \in Positions(w) : TypeAt(w, pos) = type /\ PassAt(w, pos) = pass}
Started(w) == pc[w] \notin {"idle", "decompose"}

\* C1: in every reachable state, under each of the three strategies, a task
\* of workflow.tasks has a result if and only if its status is completed.
C1_ResultIffCompleted ==
    \A w \in Workflows : \A pos \in Positions(w) :
        (tasks[w][pos].result # NoResult) <=> (StatusAt(w, pos) = "completed")

C1_Witness ==
    \E w \in Workflows : \E a, b \in Positions(w) :
        /\ pattern[w] = "loop"
        /\ StatusAt(w, a) = "completed" /\ tasks[w][a].result # NoResult
        /\ StatusAt(w, b) = "in_progress" /\ tasks[w][b].result = NoResult

\* C2: a task's status changes only along pending -> in_progress -> completed
\* or pending -> in_progress -> failed: no step moves a task backward, takes it
\* from pending to a terminal status, changes a completed or failed task, or
\* removes a task; a task enters workflow.tasks pending or in progress.
StatusStep(from, to) ==
    \/ from = to
    \/ from = "pending" /\ to = "in_progress"
    \/ from = "in_progress" /\ to \in {"completed", "failed"}

C2_StatusStepsForward ==
    [][\A w \in Workflows :
          /\ Len(tasks'[w]) >= Len(tasks[w])
          /\ \A pos \in 1..Len(tasks'[w]) :
                IF pos <= Len(tasks[w])
                THEN StatusStep(tasks[w][pos].status, tasks'[w][pos].status)
                ELSE tasks'[w][pos].status \in {"pending", "in_progress"}]_vars

C2_Witness ==
    \E w \in Workflows : \E a, b \in Positions(w) :
        /\ pattern[w] = "parallel"
        /\ StatusAt(w, a) = "completed" /\ TypeAt(w, a) = "research"
        /\ StatusAt(w, b) = "in_progress" /\ TypeAt(w, b) = "analysis"

\* C3: when the capability call of a task raises, the task is marked failed:
\* every task whose call raised has status failed.
C3_RaisedTaskIsFailed ==
    \A w \in Workflows : \A pos \in raised[w] : StatusAt(w, pos) = "failed"

\* C4: in every strategy and every pass the stages run in the order research,
\* analysis, citation: when an analysis task exists, every research query of
\* its pass has a task that precedes it and is completed; when the citation
\* task exists, every research and analysis item of its pass has a task that
\* precedes it and is completed.
StageComplete(w, type, pass, before) ==
    \A pos \in OfPass(w, type, pass) : pos < before /\ StatusAt(w, pos) = "completed"

C4_StageOrder ==
    \A w \in Workflows : \A pos \in Positions(w) :
        /\ TypeAt(w, pos) = "analysis" =>
              /\ StageComplete(w, "research", PassAt(w, pos), pos)
              /\ PassAt(w, pos) = CurrentPass(w) =>
                    Cardinality(OfPass(w, "research", CurrentPass(w)))
                        = Len(decomposition[w].research_queries)
        /\ TypeAt(w, pos) = "citation" =>
              /\ StageComplete(w, "research", PassAt(w, pos), pos)
              /\ StageComplete(w, "analysis", PassAt(w, pos), pos)
              /\ PassAt(w, pos) = CurrentPass(w) =>
                    /\ Cardinality(OfPass(w, "research", CurrentPass(w)))
                          = Len(decomposition[w].research_queries)
                    /\ Cardinality(OfPass(w, "analysis", CurrentPass(w)))
                          = Len(decomposition[w].analysis_tasks)

C4_Witness ==
    \E w \in Workflows :
        /\ pattern[w] = "parallel"
        /\ pc[w] = "await_citation"
        /\ Cardinality(OfPass(w, "research", 0)) = MaxResearch
        /\ Cardinality(OfPass(w, "analysis", 0)) = MaxAnalysis

\* C5: in the sequential strategy and in each pass of the loop at most one
\* capability call is in flight, and within a stage the i-th task dispatched
\* is for the i-th item of the decomposition list.
DispatchedInOrder(w, type, items) ==
    LET mine == OfPass(w, type, CurrentPass(w))
    IN  \A pos \in mine :
            LET i == Cardinality({other \in mine : other <= pos})
            IN  i <= Len(items) /\ tasks[w][pos].query = items[i]

C5_OneAtATimeInOrder ==
    \A w \in Workflows :
        (pattern[w] \in {"sequential", "loop"} /\ Started(w)) =>
            /\ Cardinality(inflight[w]) <= 1
            /\ HasTaskLists(decomposition[w]) =>
                  /\ DispatchedInOrder(w, "research", decomposition[w].research_queries)
                  /\ DispatchedInOrder(w, "analysis", decomposition[w].analysis_tasks)

C5_Witness ==
    \E w \in Workflows :
        /\ pattern[w] = "loop" /\ CurrentPass(w) = 2
        /\ pc[w] = "await_analysis"
        /\ Cardinality(OfPass(w, "research", 2)) = MaxResearch
        /\ Cardinality(OfPass(w, "analysis", 2)) = MaxAnalysis
        /\ Cardinality(inflight[w]) = 1

\* C6: in the parallel strategy the research stage ends, with success or with
\* failure, only after every research call it issued has settled: once the
\* outcome of the stage is known, no research call of the workflow is in flight.
ResearchStageEnded(w) == pc[w] \notin {"idle", "decompose", "research", "join"}
ResearchInFlight(w) == {pos \in inflight[w] : TypeAt(w, pos) = "research"}

C6_JoinWaitsForAll ==
    \A w \in Workflows :
        (pattern[w] = "parallel" /\ ResearchStageEnded(w)) => ResearchInFlight(w) = {}

\* C7: in the parallel strategy, if a research call raises, the research
\* stage fails as a whole: execute_workflow ends in failure, no analysis or
\* citation task is created, nothing is synthesized, the results of the
\* research calls that returned are not used, and no result is stored.
ResearchRaised(w) == \E pos \in raised[w] : TypeAt(w, pos) = "research"

C7_ParallelAllOrNothing ==
    \A w \in Workflows :
        (pattern[w] = "parallel" /\ ResearchRaised(w)) =>
            /\ pc[w] = "failed"
            /\ error[w] = "CapabilityFailure"
            /\ \A pos \in Positions(w) : TypeAt(w, pos) = "research"
            /\ research_results[w] = <<>>
            /\ synthesized[w] = <<>>
            /\ final_result[w] = NoResult

C7_Witness ==
    \E w \in Workflows :
        /\ pattern[w] = "parallel"
        /\ ResearchRaised(w)
        /\ inflight[w] = {}
        /\ \E a \in 1..Len(gathered[w]) : gathered[w][a].result.status = "completed"

\* C8: in the parallel research stage, whatever the order in which the calls
\* return, the i-th joined research result and the result stored on the i-th
\* research task are the result of the call made for the i-th research query.
Joined(w) == pattern[w] = "parallel" /\ pc[w] \notin {"idle", "decompose", "research", "join", "failed"}

C8_PositionalAssociation ==
    \A w \in Workflows :
        Joined(w) =>
            LET queries == decomposition[w].research_queries
            IN  /\ Len(research_results[w]) = Len(queries)
                /\ \A i \in 1..Len(queries) :
                      /\ tasks[w][i].query = queries[i]
                      /\ research_results[w][i] = ResultOfChild(gathered[w], i)
                      /\ research_results[w][i].query = queries[i]
                      /\ tasks[w][i].result = research_results[w][i]

\* the calls returned in an order that is not the order of the queries
C8_Witness ==
    \E w \in Workflows :
        /\ Joined(w)
        /\ Len(gathered[w]) >= 2
        /\ gathered[w][1].child > gathered[w][2].child
        /\ gathered[w][1].result # gathered[w][2].result

\* C10: in the loop, the first pass whose quality score reaches the threshold
\* stops the loop: it is the last pass recorded and the last pass started,
\* converged is set to true, and the convergence iteration recorded is the
\* 1-based index of that pass.
C10_ConvergenceStops ==
    \A w \in Workflows :
        (pattern[w] = "loop" /\ results[w] # NoResult) =>
            \A k \in 1..Len(results[w].iterations) :
                results[w].iterations[k].quality_score >= QualityThreshold =>
                    /\ k = Len(results[w].iterations)
                    /\ current_iteration[w] = k
                    /\ results[w].iterations[k].iteration = k
                    /\ {"converged", "convergence_iteration"} \subseteq results[w].keys
                    /\ results[w].converged = TRUE
                    /\ results[w].convergence_iteration = k
                    /\ pc[w] \in {"await_synthesize", "done", "failed"}
                    /\ \A pos \in Positions(w) : PassAt(w, pos) <= k

C10_Witness ==
    \E w \in Workflows :
        /\ pattern[w] = "loop"
        /\ pc[w] = "done"
        /\ Len(results[w].iterations) = 2
        /\ results[w].iterations[1].quality_score < QualityThreshold
        /\ results[w].iterations[2].quality_score >= QualityThreshold
        /\ results[w].convergence_iteration = 2

\* C9: given the same decomposition and the same deterministic capability
\* stubs, the sequential and the parallel strategy hand the same research
\* results, in the same positional order, to the analysis and citation stages
\* and produce identical analysis results and citation result, for every
\* interleaving of the parallel research calls; and neither ends in a
\* capability failure when the other one reaches its end.
AnalysisInputs(w) ==
    [i \in 1..Cardinality(OfPass(w, "analysis", 0)) |->
        LET pos == CHOOSE p \in OfPass(w, "analysis", 0) :
                       Cardinality({o \in OfPass(w, "analysis", 0) : o <= p}) = i
        IN  tasks[w][pos].context.research_results]
PastCitation(w) == pc[w] \in {"await_synthesize", "done"}

C9_SequentialEqualsParallel ==
    \A a, b \in Workflows :
        (pattern[a] = "sequential" /\ pattern[b] = "parallel") =>
            /\ (PastCitation(a) /\ PastCitation(b)) =>
                  /\ decomposition[a] = decomposition[b]
                  /\ research_results[a] = research_results[b]
                  /\ AnalysisInputs(a) = AnalysisInputs(b)
                  /\ analysis_results[a] = analysis_results[b]
                  /\ citation_result[a] = citation_result[b]
                  /\ synthesized[a] = synthesized[b]
            /\ ~(PastCitation(a) /\ pc[b] = "failed" /\ error[b] = "CapabilityFailure")
            /\ ~(PastCitation(b) /\ pc[a] = "failed" /\ error[a] = "CapabilityFailure")

\* both ran the full plan, and the parallel calls returned out of order
C9_Witness ==
    /\ pattern[1] = "sequential" /\ pattern[2] = "parallel"
    /\ pc[1] = "done" /\ pc[2] = "done"
    /\ Len(research_results[2]) = MaxResearch
    /\ Len(analysis_results[2]) = MaxAnalysis
    /\ gathered[2][1].child > gathered[2][2].child
    /\ research_results[2][1] # research_results[2][2]

\* the loop strategy is past its for-loop: synthesis is requested or done
LoopEnded(w) == pattern[w] = "loop" /\ pc[w] \in {"await_synthesize", "done"}
ScoreAt(w, k) == results[w].iterations[k].quality_score
NeverConverged(w) ==
    \A k \in 1..Len(results[w].iterations) : ScoreAt(w, k) < QualityThreshold
\* the arguments of the last synthesis call
Selected(w) == synthesized[w][Len(synthesized[w])]

\* C11: in the loop, when no pass reaches the threshold and nothing fails,
\* exactly max_iterations passes are run, each to its citation stage, and the
\* workflow's iteration counter ends at max_iterations; no run has more passes.
C11_ExactlyMaxIterations ==
    \A w \in Workflows :
        /\ pattern[w] = "loop" /\ Started(w) /\ pattern[w] \in Patterns =>
              /\ current_iteration[w] <= max_iterations
              /\ \A pos \in Positions(w) : PassAt(w, pos) \in 1..max_iterations
        /\ (LoopEnded(w) /\ NeverConverged(w)) =>
              /\ Len(results[w].iterations) = max_iterations
              /\ current_iteration[w] = max_iterations
              /\ \A k \in 1..max_iterations :
                    /\ results[w].iterations[k].iteration = k
                    /\ Cardinality(OfPass(w, "citation", k)) = 1

C11_Witness ==
    \E w \in Workflows :
        /\ pattern[w] = "loop" /\ pc[w] = "done"
        /\ NeverConverged(w)
        /\ Len(results[w].iterations) = max_iterations
        /\ ScoreAt(w, 1) < ScoreAt(w, 2)

\* C12: when the loop has run all its passes and none reached the threshold,
\* the result carries the entry converged, and it is false.
C12_ConvergedFalseWhenExhausted ==
    \A w \in Workflows :
        (LoopEnded(w) /\ NeverConverged(w)) =>
            /\ "converged" \in results[w].keys
            /\ results[w].converged = FALSE

\* C13: the pass the loop synthesizes from has the maximum quality score of
\* the passes run, and among passes with that score it is the earliest; the
\* answer and best_quality_score are those of that pass.
C13_BestPassSelected ==
    \A w \in Workflows :
        LoopEnded(w) =>
            LET its == results[w].iterations
                sel == Selected(w)
            IN  /\ sel.iteration \in 1..Len(its)
                /\ its[sel.iteration].iteration = sel.iteration
                /\ sel.quality_score = its[sel.iteration].quality_score
                /\ \A j \in 1..Len(its) : its[j].quality_score <= sel.quality_score
                /\ \A j \in 1..(sel.iteration - 1) :
                       its[j].quality_score < sel.quality_score
                /\ sel.research = its[sel.iteration].stages[1].results
                /\ sel.analysis = its[sel.iteration].stages[2].results
                /\ sel.citation = its[sel.iteration].stages[3].results
                /\ pc[w] = "done" =>
                      /\ results[w].best_quality_score = sel.quality_score
                      /\ results[w].final_answer = [built_from |-> sel]

\* the first two passes tie for the best score and the last pass is worse
C13_Witness ==
    \E w \in Workflows :
        /\ LoopEnded(w) /\ pc[w] = "done"
        /\ Len(results[w].iterations) = 3
        /\ ScoreAt(w, 1) = ScoreAt(w, 2)
        /\ ScoreAt(w, 3) < ScoreAt(w, 2)
        /\ Selected(w).iteration = 1

\* C14: when the loop converges at pass k, the synthesized answer is built
\* from the research, analysis and citation results of pass k, which is the
\* last pass run.
C14_ConvergingPassSynthesized ==
    \A w \in Workflows :
        (LoopEnded(w) /\ "converged" \in results[w].keys) =>
            LET k == results[w].convergence_iteration
                sel == Selected(w)
            IN  /\ k = current_iteration[w]
                /\ k = Len(results[w].iterations)
                /\ sel.iteration = k
                /\ sel.research = research_results[w]
                /\ sel.analysis = analysis_results[w]
                /\ sel.citation = citation_result[w]
                /\ \A i \in 1..Len(sel.research) :
                      \E pos \in OfPass(w, "research", k) :
                          tasks[w][pos].result = sel.research[i]
                /\ \A pos \in OfPass(w, "citation", k) :
                      tasks[w][pos].result = sel.citation

C14_Witness ==
    \E w \in Workflows :
        /\ LoopEnded(w) /\ pc[w] = "done"
        /\ "converged" \in results[w].keys
        /\ results[w].convergence_iteration = 2
        /\ results[w].iterations[1].stages[1].results # Selected(w).research
        /\ results[w].final_answer = [built_from |-> Selected(w)]

\* C15: in the loop, _refine_decomposition is called exactly once after each
\* pass that did not reach the threshold and was not the last allowed pass,
\* never after a converging pass or after pass max_iterations, and the
\* decomposition it returns is the one the next pass works from.
RefinePending(w) == pc[w] = "await_refine"
RefineDue(w) ==
    /\ pattern[w] = "loop"
    /\ results[w] # NoResult
    /\ Len(results[w].iterations) = current_iteration[w]
    /\ ScoreAt(w, current_iteration[w]) < QualityThreshold
    /\ current_iteration[w] < max_iterations
RefinedDecompositions(previous) ==
    {previous} \cup {ParseReply(reply) : reply \in {r \in Replies : ReplyParses(r)}}

C16_LoopFailureAborts ==
    \A w \in Workflows :
        (pattern[w] = "loop" /\ raised[w] # {}) =>
            /\ pc[w] = "failed"
            /\ error[w] = "CapabilityFailure"
            /\ inflight[w] = {}
            /\ \A pos \in raised[w] : PassAt(w, pos) = current_iteration[w]
            /\ \A pos \in Positions(w) : PassAt(w, pos) <= current_iteration[w]
            /\ Len(results[w].iterations) = current_iteration[w] - 1
            /\ synthesized[w] = <<>>
            /\ final_result[w] = NoResult
            /\ "final_answer" \notin results[w].keys

C16_Witness ==
    \E w \in Workflows :
        /\ pattern[w] = "loop" /\ raised[w] # {}
        /\ current_iteration[w] = 2
        /\ \E pos \in raised[w] : TypeAt(w, pos) = "citation"

\* C17: in every pattern, when an analysis call raises, no citation call and
\* no synthesis call is made afterwards and execute_workflow ends in failure
\* without a result: final_result is not set.
AnalysisRaised(w) == \E pos \in raised[w] : TypeAt(w, pos) = "analysis"

C17_AnalysisFailureAborts ==
    \A w \in Workflows :
        AnalysisRaised(w) =>
            /\ pc[w] = "failed"
            /\ error[w] = "CapabilityFailure"
            /\ \A pos \in raised[w] : \A later \in Positions(w) : later <= pos
            /\ OfPass(w, "citation", CurrentPass(w)) = {}
            /\ synthesized[w] = <<>>
            /\ final_result[w] = NoResult
            /\ "final_answer" \notin results[w].keys

C17_Witness ==
    \E w \in Workflows :
        /\ pattern[w] = "parallel"
        /\ AnalysisRaised(w)
        /\ \E pos \in Positions(w) :
              TypeAt(w, pos) = "analysis" /\ StatusAt(w, pos) = "completed"

\* C18: a call with an execution pattern other than sequential, parallel or
\* loop is refused at once: when the ValueError is raised, the text
\* generation has not been asked for a decomposition and no task exists.
C18_UnknownPatternRefusedAtOnce ==
    \A w \in Workflows :
        error[w] = "ValueError" =>
            /\ decomposition[w] = NoResult
            /\ tasks[w] = <<>>

\* C19: a reply of the text generation that lacks the expected structure is
\* never surfaced: the decomposition a strategy works from always has its
\* task lists, and execute_workflow never fails on a missing list.
C19_MalformedReplyRecovered ==
    \A w \in Workflows :
        /\ (Started(w) /\ decomposition[w] # NoResult) => HasTaskLists(decomposition[w])
        /\ error[w] # "KeyError"

\* C20: when the reply to the decomposition request does not parse, the
\* decomposition is the degenerate one: one research query, the user's query
\* itself, one analysis task, one citation requirement, complexity "simple".
Unparsable(outcome) == outcome # <<Raises>> /\ ~ReplyParses(outcome)

C20_DegenerateDecomposition ==
    \A w \in Workflows : \A e \in stubs.generate :
        (decomposition[w] # NoResult /\ Unparsable(e.outcome)) =>
            /\ decomposition[w].research_queries = <<user_query>>
            /\ Len(decomposition[w].analysis_tasks) = 1
            /\ Len(decomposition[w].citation_requirements) = 1
            /\ decomposition[w].complexity = "simple"
            /\ DOMAIN decomposition[w] = {"research_queries", "analysis_tasks",
                                          "citation_requirements", "complexity"}

\* the reply held a JSON plan after unfenced prose, and the run went through
\* with the user's query as its only research query
C20_Witness ==
    \E w \in Workflows : \E e \in stubs.generate :
        /\ Unparsable(e.outcome)
        /\ Len(e.outcome) = 2 /\ e.outcome[2].kind = "json"
        /\ pc[w] = "done"
        /\ Cardinality(OfPass(w, "research", 0)) = 1
        /\ \A pos \in OfPass(w, "research", 0) : tasks[w][pos].query = user_query

\* C21: every pass that runs has at least one task per stage: when the
\* citation task of a pass exists, the pass has a research task and an
\* analysis task, whatever the text generation replied.
C21_EveryStageHasATask ==
    \A w \in Workflows : \A pos \in Positions(w) :
        TypeAt(w, pos) = "citation" =>
            /\ OfPass(w, "research", PassAt(w, pos)) # {}
            /\ OfPass(w, "analysis", PassAt(w, pos)) # {}

\* C22: when the reply to a refinement request is malformed, refine returns
\* the decomposition it was given: a refinement either leaves the
\* decomposition as it is or replaces it by one that has the task lists.
C22_MalformedRefineKeepsPrevious ==
    [][\A w \in Workflows :
          (RefinePending(w) /\ decomposition'[w] # decomposition[w]) =>
              HasTaskLists(decomposition'[w])]_vars

\* C23: final_result is set exactly once, only after the strategy returned
\* its synthesized result; it is never set on a workflow that failed, and
\* once it is set neither it nor the task list changes.
C23_FinalResultSetOnce ==
    /\ [](\A w \in Workflows :
            /\ final_result[w] # NoResult <=> pc[w] = "done"
            /\ final_result[w] # NoResult =>
                  /\ error[w] = NoError
                  /\ final_result[w] = results[w]
                  /\ "final_answer" \in final_result[w].keys
                  /\ inflight[w] = {}
            /\ pc[w] = "failed" => final_result[w] = NoResult)
    /\ [][\A w \in Workflows :
            /\ final_result[w] # NoResult =>
                  /\ final_result'[w] = final_result[w]
                  /\ tasks'[w] = tasks[w]
            /\ final_result'[w] # final_result[w] => pc[w] = "await_synthesize"]_vars

C23_Witness ==
    \E w \in Workflows :
        /\ pattern[w] = "loop" /\ pc[w] = "done"
        /\ final_result[w] # NoResult
        /\ Len(tasks[w]) >= 6

\* C24: no failed capability call is retried: a capability call is issued
\* only for a task that is being appended, so at most once per task; a task
\* whose call raised has no call in flight again, and after a call raised
\* the workflow issues no further call and creates no further task.
C24_NoRetry ==
    /\ [](\A w \in Workflows : raised[w] \cap inflight[w] = {})
    /\ [][\A w \in Workflows :
            /\ \A pos \in inflight'[w] \ inflight[w] : pos > Len(tasks[w])
            /\ raised[w] # {} =>
                  /\ tasks'[w] = tasks[w]
                  /\ inflight'[w] \subseteq inflight[w]
                  /\ raised[w] \subseteq raised'[w]]_vars

C24_Witness ==
    \E w \in Workflows :
        /\ pattern[w] = "sequential"
        /\ pc[w] = "failed"
        /\ \E pos \in raised[w] : TypeAt(w, pos) = "research" /\ pos = 2

\* C25: whenever a research, analysis or citation capability failed,
\* including a research call whose document search returned an error and an
\* analysis call without research context, the workflow fails: no task that
\* is marked completed, and no answer that is synthesized, rests on a result
\* that reports an error.
C25_FailedCapabilityFailsWorkflow ==
    \A w \in Workflows :
        /\ \A pos \in Positions(w) :
              StatusAt(w, pos) = "completed" => tasks[w][pos].result.status # "error"
        /\ \A k \in 1..Len(synthesized[w]) :
              /\ \A i \in 1..Len(synthesized[w][k].research) :
                    synthesized[w][k].research[i].status # "error"
              /\ \A i \in 1..Len(synthesized[w][k].analysis) :
                    synthesized[w][k].analysis[i].status # "error"

\* the score 1.0 in the unit of EvaluateQuality
FullScore == 60 * 100

\* C26: the quality score is between 0 and 1 for every input, also for a
\* citation result whose accuracy is missing, below 0 or above 1.
C26_ScoreInUnitInterval ==
    \A k \in 1..Len(scoring) :
        scoring[k].score >= 0 /\ scoring[k].score <= FullScore

\* C27: for fixed research and analysis results the quality score is
\* strictly increasing in the citation accuracy, and two scores differ by
\* 0.50 times the difference of the accuracies.
HasAccuracy(k) == "accuracy" \in DOMAIN scoring[k].citation

C27_StrictlyIncreasingInAccuracy ==
    (Len(scoring) = 2 /\ HasAccuracy(1) /\ HasAccuracy(2)) =>
        LET lo == scoring[1].citation.accuracy
            hi == scoring[2].citation.accuracy
        IN  /\ scoring[1].research = scoring[2].research
            /\ scoring[1].analysis = scoring[2].analysis
            /\ lo < hi => scoring[1].score < scoring[2].score
            /\ 100 * (scoring[2].score - scoring[1].score)
                  = (FullScore \div 2) * (hi - lo)

C27_Witness ==
    /\ Len(scoring) = 2
    /\ HasAccuracy(1) /\ HasAccuracy(2)
    /\ scoring[1].citation.accuracy = 20
    /\ scoring[2].citation.accuracy = 90
    /\ Len(scoring[1].research) = MaxResearch
    /\ Len(scoring[1].analysis) = MaxAnalysis
    /\ scoring[2].score > scoring[1].score

\* "total_tasks": len(workflow.tasks), as execute_workflow reports it
TotalTasks(w) == Len(tasks[w])

\* C28: execute_workflow calls that run interleaved on one orchestrator each
\* own their WorkflowExecution: a step that appends to or changes the tasks
\* of one call leaves the other calls' tasks and position untouched, and the
\* tasks a call reports at its end are those of its own decomposition only.
C28_WorkflowsOwnTheirTasks ==
    /\ [](\A w \in Workflows :
            pc[w] = "done" =>
                /\ TotalTasks(w) = Len(decomposition[w].research_queries)
                                     + Len(decomposition[w].analysis_tasks) + 1
                /\ \A pos \in Positions(w) : StatusAt(w, pos) = "completed")
    /\ [][\A a, b \in Workflows :
            (a # b /\ tasks'[a] # tasks[a]) =>
                /\ tasks'[b] = tasks[b]
                /\ pc'[b] = pc[b]
                /\ inflight'[b] = inflight[b]
                /\ final_result'[b] = final_result[b]]_vars

\* the two calls are in the middle of their strategies at the same time
C28_Witness ==
    /\ pc[1] = "await_analysis" /\ pc[2] = "join"
    /\ Len(tasks[1]) = MaxResearch + 1
    /\ Len(tasks[2]) = MaxResearch
    /\ Cardinality(inflight[2]) = 1

\* C29: task ids are unique within a workflow, in every strategy and over
\* all passes of the loop.
C29_TaskIdsUnique ==
    \A w \in Workflows : \A a, b \in Positions(w) :
        a # b => tasks[w][a].task_id # tasks[w][b].task_id

C29_Witness ==
    \E w \in Workflows :
        /\ pattern[w] = "loop" /\ current_iteration[w] = max_iterations
        /\ pc[w] = "await_citation"
        /\ \A k \in 1..max_iterations :
              /\ Cardinality(OfPass(w, "research", k)) = MaxResearch
              /\ Cardinality(OfPass(w, "analysis", k)) = MaxAnalysis

\* C30: there is no timeout and no cancellation: while a capability call of
\* a workflow has not settled, execute_workflow has neither returned a
\* result nor reported a failure, in every strategy.
C30_UnsettledCallStalls ==
    \A w \in Workflows : inflight[w] # {} => pc[w] \notin {"done", "failed"}

\* the keys and lists a task's context dictionary was built with
ContextAt(w, pos) == tasks[w][pos].context

\* C31: in the sequential strategy the context recorded on each task holds
\* the full results of all earlier stages: every analysis task's context
\* holds all research results, and the citation task's context holds both
\* all research results and all analysis results.
C31_ContextAccumulates ==
    \A w \in Workflows : \A pos \in Positions(w) :
        pattern[w] = "sequential" =>
            /\ TypeAt(w, pos) = "analysis" =>
                  /\ "research_results" \in ContextAt(w, pos).keys
                  /\ ContextAt(w, pos).research_results = research_results[w]
            /\ TypeAt(w, pos) = "citation" =>
                  /\ {"research_results", "analysis_results"}
                        \subseteq ContextAt(w, pos).keys
                  /\ ContextAt(w, pos).research_results = research_results[w]
                  /\ ContextAt(w, pos).analysis_results = analysis_results[w]

\* len(research_queries) + len(analysis_tasks) + 1 of a decomposition
DecompositionSize(d) == Len(d.research_queries) + Len(d.analysis_tasks) + 1

\* the same quantity for a recorded pass: one result per query and per
\* analysis task of the pass's decomposition, and one citation call
RecordedSize(it) == Len(it.stages[1].results) + Len(it.stages[2].results) + 1

Succeeded(w) == pc[w] = "done"

\* C32: when execute_workflow returns successfully every task of the
\* workflow is completed with a result; under sequential and parallel the
\* number of tasks is |research_queries| + |analysis_tasks| + 1, and under
\* loop it is the sum of that quantity over the decompositions of the
\* passes run (a pass is recorded with one result per entry of the
\* decomposition it ran from).
C32_AllTasksCompletedAndCounted ==
    /\ [](\A w \in Workflows : Succeeded(w) =>
            /\ \A pos \in Positions(w) :
                  /\ StatusAt(w, pos) = "completed"
                  /\ tasks[w][pos].result # NoResult
            /\ pattern[w] \in {"sequential", "parallel"} =>
                  TotalTasks(w) = DecompositionSize(decomposition[w])
            /\ pattern[w] = "loop" =>
                  /\ Len(results[w].iterations) = current_iteration[w]
                  /\ TotalTasks(w) =
                        SumSeq([k \in 1..current_iteration[w] |->
                                   RecordedSize(results[w].iterations[k])])
                  /\ \A k \in 1..current_iteration[w] :
                        RecordedSize(results[w].iterations[k])
                           = Cardinality(OfPass(w, "research", k))
                               + Cardinality(OfPass(w, "analysis", k))
                               + Cardinality(OfPass(w, "citation", k)))
    /\ [][\A w \in Workflows :
            (pattern[w] = "loop" /\ results[w] # NoResult /\ results'[w] # NoResult
               /\ Len(results'[w].iterations) = Len(results[w].iterations) + 1) =>
                  RecordedSize(results'[w].iterations[Len(results'[w].iterations)])
                     = DecompositionSize(decomposition[w])]_vars

\* a loop that ran all its passes from decompositions of different sizes
C32_Witness ==
    \E w \in Workflows :
        /\ Succeeded(w) /\ pattern[w] = "loop"
        /\ current_iteration[w] = max_iterations
        /\ RecordedSize(results[w].iterations[1])
              # RecordedSize(results[w].iterations[2])
        /\ TotalTasks(w) > max_iterations

\* a research task as it was appended: in progress, nothing stored on it
Untouched(w, pos) == StatusAt(w, pos) = "in_progress" /\ tasks[w][pos].result = NoResult

ReturnedChildren(w) == {gathered[w][a].child : a \in 1..Len(gathered[w])}

\* C33: in the parallel strategy the research tasks are updated only after
\* the join has succeeded: while the join is awaited, and for good once a
\* research call has failed, every research task of the workflow (those
\* whose calls returned successfully included) is in progress with no
\* result, none is completed; a research task changes only in the step that
\* leaves the join for the analysis stage.
C33_ResearchUpdatedAfterJoin ==
    /\ [](\A w \in Workflows :
            (pattern[w] = "parallel" /\ (pc[w] = "join" \/ ResearchRaised(w))) =>
                \A pos \in Positions(w) :
                    TypeAt(w, pos) = "research" /\ Untouched(w, pos))
    /\ [][\A w \in Workflows : \A pos \in Positions(w) :
            (pattern[w] = "parallel" /\ TypeAt(w, pos) = "research"
               /\ tasks'[w][pos] # tasks[w][pos]) =>
                  /\ pc[w] = "join" /\ pc'[w] = "analysis"
                  /\ raised[w] = {} /\ inflight[w] = {}
                  /\ \A other \in Positions(w) : StatusAt(w, other)' = "completed"]_vars

\* one research call failed after another had returned its result: the
\* task of the call that returned is still in progress without result
C33_Witness ==
    \E w \in Workflows :
        /\ pattern[w] = "parallel" /\ pc[w] = "failed"
        /\ Len(tasks[w]) = MaxResearch
        /\ raised[w] = {2}
        /\ ReturnedChildren(w) = {1}
        /\ Untouched(w, 1)

\* the number of calls of _synthesize_answer a workflow has made
SynthesizerCalls(w) == Len(synthesized[w])

\* the last task of the workflow is the citation task of the pass that ran
\* last, and its call has returned
LastCitationReturned(w) ==
    /\ tasks[w] # <<>>
    /\ TypeAt(w, Len(tasks[w])) = "citation"
    /\ StatusAt(w, Len(tasks[w])) = "completed"
    /\ PassAt(w, Len(tasks[w])) = (IF pattern[w] = "loop" THEN current_iteration[w] ELSE 0)
    /\ inflight[w] = {}

\* C34: the answer synthesizer is invoked exactly once in every successful
\* workflow, only after the citation call of the last pass run has returned
\* (in the loop: after that pass's quality score has been recorded), and
\* never in a workflow that fails in its decomposition or in a research,
\* analysis or citation stage.
C34_SynthesizedOnceAtTheEnd ==
    /\ [](\A w \in Workflows :
            /\ SynthesizerCalls(w) <= 1
            /\ Succeeded(w) => SynthesizerCalls(w) = 1
            /\ SynthesizerCalls(w) >= 1 =>
                  /\ LastCitationReturned(w)
                  /\ raised[w] = {}
                  /\ error[w] \in {NoError, "GenerationFailure"}
                  /\ pattern[w] = "loop" =>
                        /\ Len(results[w].iterations) = current_iteration[w]
                        /\ (ScoreAt(w, current_iteration[w]) >= QualityThreshold
                              \/ current_iteration[w] = max_iterations)
            /\ (raised[w] # {} \/ error[w] \in {"ValueError", "KeyError", "CapabilityFailure"})
                  => SynthesizerCalls(w) = 0)
    /\ [][\A w \in Workflows :
            synthesized'[w] # synthesized[w] =>
                /\ pc[w] = "await_citation" /\ pc'[w] = "await_synthesize"
                /\ synthesized[w] = <<>>]_vars

\* the loop synthesizes once, after the citation call of its third pass
C34_Witness ==
    \E w \in Workflows :
        /\ Succeeded(w) /\ pattern[w] = "loop"
        /\ current_iteration[w] = max_iterations
        /\ SynthesizerCalls(w) = 1
        /\ Cardinality(OfPass(w, "citation", max_iterations)) = 1
        /\ Selected(w).iteration < max_iterations

\* results["converged"] is present and true
ConvergedReported(w) == "converged" \in results[w].keys /\ results[w].converged = TRUE

\* C35: in every successful loop result best_quality_score is the maximum of
\* the per-iteration quality scores, the number of recorded iterations is the
\* workflow's iteration counter, and converged is reported if and only if
\* best_quality_score >= quality_threshold, convergence_iteration being then
\* the index of the last recorded iteration.
C35_LoopResultConsistent ==
    \A w \in Workflows :
        (Succeeded(w) /\ pattern[w] = "loop") =>
            LET its == results[w].iterations
                best == results[w].best_quality_score
            IN  /\ {"iterations", "best_quality_score", "final_answer"}
                      \subseteq results[w].keys
                /\ final_result[w] = results[w]
                /\ its # <<>>
                /\ \A k \in 1..Len(its) : ScoreAt(w, k) <= best
                /\ \E k \in 1..Len(its) : ScoreAt(w, k) = best
                /\ Len(its) = current_iteration[w]
                /\ \A k \in 1..Len(its) : its[k].iteration = k
                /\ ConvergedReported(w) <=> best >= QualityThreshold
                /\ "converged" \in results[w].keys <=> ConvergedReported(w)
                /\ "convergence_iteration" \in results[w].keys <=> ConvergedReported(w)
                /\ ConvergedReported(w) => results[w].convergence_iteration = Len(its)

\* the second pass reached the threshold after a first pass that did not
C35_Witness ==
    \E w \in Workflows :
        /\ Succeeded(w) /\ pattern[w] = "loop"
        /\ ConvergedReported(w)
        /\ results[w].convergence_iteration = 2
        /\ ScoreAt(w, 1) < QualityThreshold
        /\ results[w].best_quality_score = ScoreAt(w, 2)

Called(w) == pc[w] # "idle"

\* execute_workflow has returned its result or raised its failure
Ended(w) ==
    \/ pc[w] = "done" /\ final_result[w] # NoResult /\ error[w] = NoError
    \/ pc[w] = "failed" /\ error[w] # NoError

\* C36: provided every capability call and every text-generation call
\* eventually settles, every execute_workflow call eventually ends, either
\* returning a result or raising a failure, under each pattern; and the loop
\* never runs more than max_iterations passes.
C36_EveryCallEnds ==
    /\ \A w \in Workflows : Called(w) ~> Ended(w)
    /\ [](\A w \in Workflows :
            /\ current_iteration[w] <= max_iterations
            /\ \A pos \in Positions(w) : PassAt(w, pos) <= max_iterations
            /\ results[w] # NoResult => Len(results[w].iterations) <= max_iterations)

\* a loop that needed all its passes has returned its result
C36_Witness ==
    \E w \in Workflows :
        /\ Called(w) /\ Ended(w) /\ pattern[w] = "loop"
        /\ pc[w] = "done"
        /\ current_iteration[w] = max_iterations
        /\ Cardinality(OfPass(w, "research", max_iterations)) >= 1

\* C37: after delete_session(id), whatever create_session, save_session,
\* create_checkpoint and list_sessions calls came before it, get_session(id)
\* returns None and list_sessions returns no session whose session_id is id,
\* until the session is created (or saved) again or restored from a
\* checkpoint.
C37_DeletedStaysDeleted ==
    /\ (response.op = "get_session" /\ response.session_id \in deleted)
           => response.value = {}
    /\ response.op = "list_sessions"
           => \A session \in response.value : session.session_id \notin deleted

====
